---- MODULE Spec2Model ----
(***************************************************************************)
(* A model of grr/client/vfs_handlers/sleuthkit.py: the TSKFile handler,   *)
(* its process-wide DEVICE_CACHE of parsed filesystems, the construction   *)
(* of a handler on a base handler, Stat / ListFiles / Read.                *)
(*                                                                         *)
(* Text is modelled structurally: a device path is a sequence of           *)
(* characters, a filesystem path is a sequence of segments and a segment   *)
(* is a sequence of tokens (a name, or a name followed by ":" and a        *)
(* stream name).                                                           *)
(***************************************************************************)
EXTENDS Integers, Sequences, FiniteSets, TLC

VARIABLES
  DEVICE_CACHE,   \* the module-level utils.TimeBasedCache: key -> [stamp, obj]
  now,            \* the clock the cache reads
  sessions,       \* every CachedFilesystem constructed so far, by identity
  image,          \* what pytsk3 parses out of a raw device
  ctor,           \* per thread: the TSKFile it is constructing or holds
  reads,          \* per thread: what the Read calls on its handler returned
  stats,          \* per thread: the StatResponse of Stat() on its handler
  listings        \* per thread: the StatResponses of ListFiles() on its handler

vars == <<DEVICE_CACHE, now, sessions, image, ctor, reads, stats, listings>>

results == <<reads, stats, listings>>

----------------------------------------------------------------------------
(* Bounds of the model. *)

NumThreads == 3
MaxSessions == 3
MaxTime == 2
MaxAge == 1
MaxPathLen == 3
MaxSize == 3
MaxLen == 2
MaxEntries == 3

Threads == 1..NumThreads

----------------------------------------------------------------------------
(* Integers and bits. *)

Min(a, b) == IF a < b THEN a ELSE b

Max(a, b) == IF a < b THEN b ELSE a

RECURSIVE BitOr(_, _)
BitOr(a, b) ==
  IF a = 0 THEN b
  ELSE IF b = 0 THEN a
  ELSE 2 * BitOr(a \div 2, b \div 2) + Max(a % 2, b % 2)

\* int(value), with value &= 0xFFFFFFFF for a negative value; a 32-bit quantity
\* is kept as its two 16-bit halves
Unsigned32(value) ==
  IF value < 0 THEN [hi |-> 65535, lo |-> 65536 + value]
  ELSE [hi |-> value \div 65536, lo |-> value % 65536]

Digits == <<"0", "1", "2", "3", "4", "5", "6", "7", "8", "9">>

RECURSIVE Str(_)
Str(n) == IF n < 10 THEN <<Digits[n + 1]>> ELSE Str(n \div 10) \o <<Digits[(n % 10) + 1]>>

Last(s) == s[Len(s)]

Front(s) == SubSeq(s, 1, Len(s) - 1)

----------------------------------------------------------------------------
(* stat.S_IF* as FILE_TYPE_LOOKUP and META_TYPE_LOOKUP encode them. *)

FILE_TYPE_LOOKUP ==
  [UNDEF |-> 0, FIFO |-> 4096, CHR |-> 8192, DIR |-> 16384,
   BLK |-> 24576, REG |-> 32768, LNK |-> 40960, SOCK |-> 49152]

META_TYPE_LOOKUP ==
  [BLK |-> 0, CHR |-> 8192, DIR |-> 16384, FIFO |-> 4096,
   LNK |-> 40960, REG |-> 32768, SOCK |-> 49152]

\* dict.get(key, 0)
LookupGet(table, key) == IF key \in DOMAIN table THEN table[key] ELSE 0

BLACKLIST_FILES == {"$OrphanFiles"}

----------------------------------------------------------------------------
(* Paths. *)

RECURSIVE NormalizeFrom(_, _, _)
NormalizeFrom(path, i, acc) ==
  IF i > Len(path) THEN acc
  ELSE IF path[i] = <<".">> \/ path[i] = <<>> THEN NormalizeFrom(path, i + 1, acc)
  ELSE IF path[i] = <<"..">>
    THEN NormalizeFrom(path, i + 1, IF acc = <<>> THEN acc ELSE Front(acc))
  ELSE NormalizeFrom(path, i + 1, Append(acc, path[i]))

NormalizePath(path) == NormalizeFrom(path, 1, <<>>)

JoinPath(a, b) == NormalizePath(a \o b)

----------------------------------------------------------------------------
(* The address: a sequence of components. *)

\* what reading an unset ntfs_type / ntfs_id of a component returns
DefaultNtfsType == "DEFAULT"

DefaultNtfsId == 0

Component(pathtype, path, hasInode, inode, hasNtfs, ntfs_type, ntfs_id) ==
  [pathtype |-> pathtype, path |-> path, hasInode |-> hasInode, inode |-> inode,
   hasNtfs |-> hasNtfs, ntfs_type |-> ntfs_type, ntfs_id |-> ntfs_id,
   path_options |-> "CASE_INSENSITIVE"]

PathComponent(path) == Component("TSK", path, FALSE, 0, FALSE, DefaultNtfsType, DefaultNtfsId)

InodeComponent(path, inode) ==
  Component("TSK", path, TRUE, inode, FALSE, DefaultNtfsType, DefaultNtfsId)

StreamComponent(path, inode, ntfs_type, ntfs_id) ==
  Component("TSK", path, TRUE, inode, TRUE, ntfs_type, ntfs_id)

\* pathspec.Pop(-1)
Pop(pathspec) == Front(pathspec)

\* pathspec.last.<field> = value
SetLast(pathspec, field, value) ==
  [pathspec EXCEPT ![Len(pathspec)] = [@ EXCEPT ![field] = value]]

----------------------------------------------------------------------------
(* Raw devices: the file-like handlers of other backends. *)

RawDevice(path, hasOffset, image_offset) ==
  [path |-> path, hasOffset |-> hasOffset, image_offset |-> image_offset]

Devices == {RawDevice(<<"a">>, FALSE, 0), RawDevice(<<"a">>, TRUE, 1)}

\* fd_hash: the raw device's path, plus ":" and its image_offset when it has one
FdHash(dev) ==
  IF dev.hasOffset THEN dev.path \o <<":">> \o Str(dev.image_offset) ELSE dev.path

RawPathspec(dev) == <<Component("OS", <<dev.path>>, FALSE, 0, FALSE, DefaultNtfsType, DefaultNtfsId)>>

NoDevice == RawDevice(<<>>, FALSE, 0)

\* a base handler, as the constructor sees it
NoBase == [kind |-> "none", isDir |-> FALSE, pathspec |-> <<>>, dev |-> NoDevice, depth |-> 0]

FileBase(dev) ==
  [kind |-> "os", isDir |-> FALSE, pathspec |-> RawPathspec(dev), dev |-> dev, depth |-> 0]

ForeignDirectoryBase(dev) ==
  [kind |-> "os", isDir |-> TRUE, pathspec |-> RawPathspec(dev), dev |-> dev, depth |-> 0]

----------------------------------------------------------------------------
(* The parsed filesystem: inode metadata by address, and the entries of    *)
(* each directory in directory order.                                      *)

Meta(type, mode, size, mtime, attrs) ==
  [type |-> type, mode |-> mode, nlink |-> 1, uid |-> 0, gid |-> 0, size |-> size,
   atime |-> 0, mtime |-> mtime, ctime |-> 0, attrs |-> attrs]

Attribute(type, id, name, size) == [type |-> type, id |-> id, name |-> name, size |-> size]

\* a directory entry: addr = 0 when the entry has no metadata block
Dirent(name, type, addr) == [name |-> name, type |-> type, addr |-> addr]

RootInode == 1

\* a file handle of the parser: info.name (absent after open_meta) and info.meta
NoFile == [ok |-> FALSE, hasName |-> FALSE, name |-> "", ntype |-> "UNDEF", meta |-> 0]

File(hasName, name, ntype, meta) ==
  [ok |-> TRUE, hasName |-> hasName, name |-> name, ntype |-> ntype, meta |-> meta]

\* the first entry of directory addr named by the segment, or 0
FindEntry(img, addr, segment) ==
  LET d == img.dir[addr]
      hits == {i \in 1..Len(d) : segment = <<d[i].name>>}
  IN IF hits = {} THEN 0 ELSE CHOOSE i \in hits : \A j \in hits : i <= j

RECURSIVE Walk(_, _, _, _)
Walk(img, fd, path, i) ==
  IF i > Len(path) THEN fd
  ELSE IF fd.meta = 0 \/ fd.meta \notin DOMAIN img.dir THEN NoFile
  ELSE LET k == FindEntry(img, fd.meta, path[i])
       IN IF k = 0 THEN NoFile
          ELSE LET e == img.dir[fd.meta][k]
               IN Walk(img, File(TRUE, e.name, e.type, e.addr), path, i + 1)

\* fs.open(path)
FsOpen(img, path) == Walk(img, File(TRUE, "", "DIR", RootInode), path, 1)

\* fs.open_meta(inode)
FsOpenMeta(img, inode) ==
  IF inode \in DOMAIN img.meta THEN File(FALSE, "", "UNDEF", inode) ELSE NoFile

\* an image with a directory /d and a file /d/f that has a named stream
TreeImage ==
  [meta |-> (1 :> Meta("DIR", 0, 0, 0, <<>>)) @@ (2 :> Meta("DIR", 0, 0, 0, <<>>))
            @@ (3 :> Meta("REG", 0, MaxSize, 0, <<Attribute("NTFS_DATA", 2, "s", 1)>>)),
   dir |-> (1 :> <<Dirent("d", "DIR", 2)>>) @@ (2 :> <<Dirent("f", "REG", 3)>>)]

----------------------------------------------------------------------------
(* DEVICE_CACHE = utils.TimeBasedCache(): entries carry the time of their  *)
(* Put and are reported missing once older than the maximum age.           *)

CacheHit(cache, key, time) == key \in DOMAIN cache /\ cache[key].stamp + MaxAge >= time

CachePut(cache, key, obj, time) ==
  [k \in DOMAIN cache \cup {key} |-> IF k = key THEN [stamp |-> time, obj |-> obj] ELSE cache[k]]

----------------------------------------------------------------------------
(* TSKFile.__init__, one construction per thread.                          *)

IdleCtor ==
  [pc |-> "idle", err |-> "", base |-> NoBase, comp |-> PathComponent(<<>>),
   pathspec |-> <<>>, tsk_raw_device |-> NoDevice, tsk_path |-> <<>>,
   filesystem |-> 0, fd |-> NoFile, size |-> 0, offset |-> 0,
   parsed |-> FALSE, looked |-> FALSE, miss |-> "", priorStart |-> {}, prior |-> {},
   origin |-> <<>>, rest |-> <<>>, address |-> <<>>]

IsDirectory(h) == h.fd.meta # 0 /\ image.meta[h.fd.meta].type = "DIR"

IsFile(h) == h.fd.meta # 0 /\ image.meta[h.fd.meta].type = "REG"

\* a constructed TSKFile that denotes a directory, seen as a base
TskBase(h) ==
  [kind |-> "tsk", isDir |-> TRUE, pathspec |-> h.pathspec, dev |-> h.tsk_raw_device,
   depth |-> h.base.depth + 1]

\* ResolveBase with the base's last component kept: the address grows
ResolveBase_Append(base, comp) ==
  IF base.kind = "none"
    THEN [err |-> "IOError", dev |-> NoDevice, pathspec |-> <<>>]
  ELSE IF base.kind = "tsk" /\ base.isDir
    THEN LET last_path == JoinPath(Last(base.pathspec).path, comp.path)
             appended == SetLast(Append(base.pathspec, comp), "path", last_path)
         IN [err |-> "", dev |-> base.dev,
             pathspec |-> SetLast(appended, "path_options", "CASE_LITERAL")]
  ELSE IF ~base.isDir
    THEN [err |-> "", dev |-> base.dev,
          pathspec |-> SetLast(Append(base.pathspec, comp), "path_options", "CASE_LITERAL")]
  ELSE [err |-> "IOError", dev |-> NoDevice, pathspec |-> <<>>]

\* ResolveBase without the check that a foreign base is file-like
ResolveBase_AnyBase(base, comp) ==
  IF base.kind = "none"
    THEN [err |-> "IOError", dev |-> NoDevice, pathspec |-> <<>>]
  ELSE IF base.kind = "tsk" /\ base.isDir
    THEN LET last_path == JoinPath(Last(base.pathspec).path, comp.path)
             replaced == SetLast(Append(Pop(base.pathspec), comp), "path", last_path)
         IN [err |-> "", dev |-> base.dev,
             pathspec |-> SetLast(replaced, "path_options", "CASE_LITERAL")]
  ELSE [err |-> "", dev |-> base.dev,
        pathspec |-> SetLast(Append(base.pathspec, comp), "path_options", "CASE_LITERAL")]

\* Lines 104-134: which raw device and which address the new handler gets.
ResolveBase(base, comp) ==
  IF base.kind = "none"
    THEN [err |-> "IOError", dev |-> NoDevice, pathspec |-> <<>>]
  ELSE IF base.kind = "tsk" /\ base.isDir
    THEN LET last_path == JoinPath(Last(base.pathspec).path, comp.path)
             replaced == SetLast(Append(Pop(base.pathspec), comp), "path", last_path)
         IN [err |-> "", dev |-> base.dev,
             pathspec |-> SetLast(replaced, "path_options", "CASE_LITERAL")]
  ELSE IF ~base.isDir
    THEN [err |-> "", dev |-> base.dev,
          pathspec |-> SetLast(Append(base.pathspec, comp), "path_options", "CASE_LITERAL")]
  ELSE [err |-> "IOError", dev |-> NoDevice, pathspec |-> <<>>]

\* the sessions that completed handlers on this device hold
HeldSessions(key) ==
  {ctor[u].filesystem : u \in {v \in Threads : ctor[v].pc = "done"
                                  /\ FdHash(ctor[v].tsk_raw_device) = key}}

Unexpired(s) == sessions[s].stamp >= 0 /\ sessions[s].stamp + MaxAge >= now

\* the bases an open is offered: none, a raw file-like handler, a directory of
\* another backend, a directory already opened by this backend
FileBases == {FileBase(d) : d \in Devices}

DirectoryBases ==
  {TskBase(ctor[u]) : u \in {v \in Threads : ctor[v].pc = "done" /\ IsDirectory(ctor[v])}}

Bases == {NoBase} \cup FileBases \cup {ForeignDirectoryBase(d) : d \in Devices} \cup DirectoryBases

CacheComponents == {PathComponent(<<<<"d">>>>), PathComponent(<<<<"x">>>>)}

OpenComponents ==
  {PathComponent(<<<<"d">>>>), PathComponent(<<<<"f">>>>),
   PathComponent(<<<<".">>>>), InodeComponent(<<<<"x">>>>, 2)}

\* Lines 95-138.
Construct(t, base, comp, origin) ==
  LET r == ResolveBase(base, comp)
  IN ctor' = [ctor EXCEPT ![t] =
       IF r.err # ""
         THEN [IdleCtor EXCEPT !.pc = "failed", !.err = r.err, !.base = base, !.comp = comp,
                 !.origin = origin]
         ELSE [IdleCtor EXCEPT !.pc = "get", !.base = base, !.comp = comp, !.origin = origin,
                 !.pathspec = r.pathspec, !.tsk_raw_device = r.dev,
                 !.tsk_path = Last(r.pathspec).path,
                 !.priorStart = HeldSessions(FdHash(r.dev))]]

\* threads are interchangeable: they take up their opens in index order
InTurn(t) == \A u \in Threads : u < t => ctor[u].pc # "idle"

\* a thread opens a path on a raw device, concurrently with the others
Start(t) ==
  /\ ctor[t].pc = "idle"
  /\ InTurn(t)
  /\ \E base \in FileBases, comp \in CacheComponents : Construct(t, base, comp, <<>>)
  /\ UNCHANGED <<DEVICE_CACHE, now, sessions, image, results>>

Busy(t) == ctor[t].pc \in {"get", "parse", "put", "open"}

\* one open after the other, on any base
StartNested(t) ==
  /\ ctor[t].pc = "idle"
  /\ InTurn(t)
  /\ \A u \in Threads : ~Busy(u)
  /\ \E base \in Bases, comp \in OpenComponents :
       /\ IF base.kind = "tsk"
            THEN Len(Last(base.pathspec).path) + Len(comp.path) <= MaxPathLen
            ELSE TRUE
       /\ Construct(t, base, comp, <<>>)
  /\ UNCHANGED <<DEVICE_CACHE, now, sessions, image, results>>

\* Lines 141-144: DEVICE_CACHE.Get(fd_hash), KeyError when missing or expired.
Get(t) ==
  /\ ctor[t].pc = "get"
  /\ LET key == FdHash(ctor[t].tsk_raw_device)
         prior == {s \in ctor[t].priorStart : Unexpired(s)}
     IN ctor' = [ctor EXCEPT ![t] =
          IF CacheHit(DEVICE_CACHE, key, now)
            THEN [@ EXCEPT !.pc = "open", !.filesystem = DEVICE_CACHE[key].obj,
                           !.looked = TRUE, !.prior = prior]
            ELSE [@ EXCEPT !.pc = "parse", !.looked = TRUE, !.prior = prior,
                           !.miss = IF key \in DOMAIN DEVICE_CACHE THEN "expired" ELSE "absent"]]
  /\ UNCHANGED <<DEVICE_CACHE, now, sessions, image, results>>

\* Lines 145-154: MyImgInfo, pytsk3.FS_Info (which may raise), CachedFilesystem.
Parse(t) ==
  /\ ctor[t].pc = "parse"
  /\ Len(sessions) < MaxSessions
  /\ LET key == FdHash(ctor[t].tsk_raw_device)
     IN \E parses \in BOOLEAN :
          IF parses
            THEN /\ sessions' = Append(sessions,
                       [dev |-> key, raw |-> ctor[t].tsk_raw_device, stamp |-> -1,
                        cause |-> ctor[t].miss])
                 /\ ctor' = [ctor EXCEPT ![t].pc = "put", ![t].parsed = TRUE,
                                         ![t].filesystem = Len(sessions) + 1]
            ELSE /\ sessions' = sessions
                 /\ ctor' = [ctor EXCEPT ![t].pc = "failed", ![t].err = "IOError"]
  /\ UNCHANGED <<DEVICE_CACHE, now, image, results>>

\* the constructor without its DEVICE_CACHE.Put
Put_NoStore(t) ==
  /\ ctor[t].pc = "put"
  /\ ctor' = [ctor EXCEPT ![t].pc = "open"]
  /\ UNCHANGED <<DEVICE_CACHE, now, sessions, image, results>>

\* Line 156: DEVICE_CACHE.Put(fd_hash, self.filesystem).
Put(t) ==
  /\ ctor[t].pc = "put"
  /\ DEVICE_CACHE' = CachePut(DEVICE_CACHE, FdHash(ctor[t].tsk_raw_device), ctor[t].filesystem, now)
  /\ sessions' = [sessions EXCEPT ![ctor[t].filesystem].stamp = now]
  /\ ctor' = [ctor EXCEPT ![t].pc = "open"]
  /\ UNCHANGED <<now, image, results>>

\* the attribute value a component yields when its field is unset
NtfsType(comp) == IF comp.hasNtfs THEN comp.ntfs_type ELSE DefaultNtfsType

NtfsId(comp) == IF comp.hasNtfs THEN comp.ntfs_id ELSE DefaultNtfsId

\* Lines 174-179: the first attribute of the entry with this type and id, or 0.
GetAttribute(img, fd, ntfs_type, ntfs_id) ==
  LET attrs == img.meta[fd.meta].attrs
      hits == {i \in 1..Len(attrs) : attrs[i].type = ntfs_type /\ attrs[i].id = ntfs_id}
  IN IF hits = {} THEN 0 ELSE CHOOSE i \in hits : \A j \in hits : i <= j

\* Lines 160-172: the entry, its size, and the inode written back on the address.
ResolveEntry(img, h) ==
  IF h.comp.hasInode
    THEN LET fd == FsOpenMeta(img, h.comp.inode)
         IN IF ~fd.ok THEN [h EXCEPT !.pc = "failed", !.err = "IOError"]
            ELSE LET a == GetAttribute(img, fd, NtfsType(h.comp), NtfsId(h.comp))
                 IN [h EXCEPT !.pc = "done", !.fd = fd,
                       !.size = IF a # 0 THEN img.meta[fd.meta].attrs[a].size
                                ELSE img.meta[fd.meta].size]
    ELSE LET fd == FsOpen(img, Last(h.pathspec).path)
         IN IF ~fd.ok THEN [h EXCEPT !.pc = "failed", !.err = "IOError"]
            ELSE IF fd.meta = 0 THEN [h EXCEPT !.pc = "failed", !.err = "AttributeError"]
            ELSE [h EXCEPT !.pc = "done", !.fd = fd, !.size = img.meta[fd.meta].size,
                           !.pathspec = SetLast(SetLast(h.pathspec, "inode", fd.meta),
                                                "hasInode", TRUE)]

\* the constructor dropping the cache entry of its device when the entry is
\* not found
OpenEntry_Evict(t) ==
  /\ ctor[t].pc = "open"
  /\ ctor' = [ctor EXCEPT ![t] = ResolveEntry(image, ctor[t])]
  /\ DEVICE_CACHE' =
       IF ResolveEntry(image, ctor[t]).pc = "failed"
         THEN [k \in DOMAIN DEVICE_CACHE \ {FdHash(ctor[t].tsk_raw_device)} |-> DEVICE_CACHE[k]]
         ELSE DEVICE_CACHE
  /\ UNCHANGED <<now, sessions, image, results>>

OpenEntry(t) ==
  /\ ctor[t].pc = "open"
  /\ ctor' = [ctor EXCEPT ![t] = ResolveEntry(image, ctor[t])]
  /\ UNCHANGED <<DEVICE_CACHE, now, sessions, image, results>>

\* time passes
Tick ==
  /\ now < MaxTime
  /\ now' = now + 1
  /\ UNCHANGED <<DEVICE_CACHE, sessions, image, ctor, results>>

NoRead ==
  [called |-> FALSE, length |-> 0, data |-> <<>>, err |-> "", before |-> 0,
   got |-> <<>>, exact |-> TRUE, io |-> FALSE, fault |-> FALSE, afterFault |-> FALSE]

NoStat ==
  [err |-> "none", st_ino |-> 0, st_mode |-> Unsigned32(0), st_nlink |-> Unsigned32(0),
   st_uid |-> Unsigned32(0), st_gid |-> Unsigned32(0), st_size |-> Unsigned32(0),
   st_atime |-> Unsigned32(0), st_mtime |-> Unsigned32(0), st_ctime |-> Unsigned32(0),
   pathspec |-> <<>>]

NoListing == [called |-> FALSE, err |-> "", records |-> <<>>, enumerated |-> 0]

NoResults ==
  /\ reads = [t \in Threads |-> NoRead]
  /\ stats = [t \in Threads |-> NoStat]
  /\ listings = [t \in Threads |-> NoListing]

Init ==
  /\ DEVICE_CACHE = <<>>
  /\ now = 0
  /\ sessions = <<>>
  /\ image = TreeImage
  /\ ctor = [t \in Threads |-> IdleCtor]
  /\ NoResults

Next ==
  \/ \E t \in Threads : Start(t)
  \/ \E t \in Threads : Get(t)
  \/ \E t \in Threads : Parse(t)
  \/ \E t \in Threads : Put(t)
  \/ \E t \in Threads : OpenEntry(t)
  \/ Tick

Spec == Init /\ [][Next]_vars

NextNested ==
  \/ \E t \in Threads : StartNested(t)
  \/ \E t \in Threads : Get(t)
  \/ \E t \in Threads : Parse(t)
  \/ \E t \in Threads : Put(t)
  \/ \E t \in Threads : OpenEntry(t)

SpecNested == Init /\ [][NextNested]_vars

----------------------------------------------------------------------------
(* TSKFile.Read *)

\* the bytes of the stream a handler reads: distinct at every position
Content(h) == [i \in 1..h.size |-> 10 * NtfsId(Last(h.pathspec)) + i]

\* fd.read_random(offset, available, ntfs_type, ntfs_id): the bytes asked for, or
\* fewer of them
ReadRandom(h, offset, available, outcome) ==
  SubSeq(Content(h), offset + 1, offset + (IF outcome = "short" THEN available - 1 ELSE available))

ReadOutcomes == {"full", "short", "fault"}

\* Read with the offset advanced by the length asked for
ReadResult_AdvanceByLength(h, length, outcome) ==
  IF ~IsFile(h) THEN [err |-> "IOError", data |-> <<>>, offset |-> h.offset, io |-> FALSE]
  ELSE LET available == Min(h.size - h.offset, length)
       IN IF available > 0
            THEN IF outcome = "fault"
                   THEN [err |-> "IOError", data |-> <<>>, offset |-> h.offset, io |-> TRUE]
                   ELSE [err |-> "", data |-> ReadRandom(h, h.offset, available, outcome),
                         offset |-> h.offset + length, io |-> TRUE]
            ELSE [err |-> "", data |-> <<>>, offset |-> h.offset, io |-> FALSE]

\* Read that lets the parser's RuntimeError through
ReadResult_RawFault(h, length, outcome) ==
  IF ~IsFile(h) THEN [err |-> "IOError", data |-> <<>>, offset |-> h.offset, io |-> FALSE]
  ELSE LET available == Min(h.size - h.offset, length)
       IN IF available > 0
            THEN IF outcome = "fault"
                   THEN [err |-> "RuntimeError", data |-> <<>>, offset |-> h.offset, io |-> TRUE]
                   ELSE LET data == ReadRandom(h, h.offset, available, outcome)
                        IN [err |-> "", data |-> data, offset |-> h.offset + Len(data), io |-> TRUE]
            ELSE [err |-> "", data |-> <<>>, offset |-> h.offset, io |-> FALSE]

\* Read without the test that the entry is a regular file
ReadResult_AnyEntry(h, length, outcome) ==
  LET available == Min(h.size - h.offset, length)
  IN IF available > 0
       THEN IF outcome = "fault"
              THEN [err |-> "IOError", data |-> <<>>, offset |-> h.offset, io |-> TRUE]
              ELSE LET data == ReadRandom(h, h.offset, available, outcome)
                   IN [err |-> "", data |-> data, offset |-> h.offset + Len(data), io |-> TRUE]
       ELSE [err |-> "", data |-> <<>>, offset |-> h.offset, io |-> FALSE]

\* Read without the test available > 0: the offset moves by available
ReadResult_NoGuard(h, length, outcome) ==
  IF ~IsFile(h) THEN [err |-> "IOError", data |-> <<>>, offset |-> h.offset, io |-> FALSE]
  ELSE LET available == Min(h.size - h.offset, length)
       IN IF outcome = "fault" /\ available > 0
            THEN [err |-> "IOError", data |-> <<>>, offset |-> h.offset, io |-> TRUE]
            ELSE [err |-> "",
                  data |-> IF available > 0 THEN ReadRandom(h, h.offset, available, outcome) ELSE <<>>,
                  offset |-> h.offset + available, io |-> TRUE]

\* Lines 232-250: the result, the error and the new offset.
ReadResult(h, length, outcome) ==
  IF ~IsFile(h) THEN [err |-> "IOError", data |-> <<>>, offset |-> h.offset, io |-> FALSE]
  ELSE LET available == Min(h.size - h.offset, length)
       IN IF available > 0
            THEN IF outcome = "fault"
                   THEN [err |-> "IOError", data |-> <<>>, offset |-> h.offset, io |-> TRUE]
                   ELSE LET data == ReadRandom(h, h.offset, available, outcome)
                        IN [err |-> "", data |-> data, offset |-> h.offset + Len(data), io |-> TRUE]
            ELSE [err |-> "", data |-> <<>>, offset |-> h.offset, io |-> FALSE]

ReadLengths == (0 - 1)..MaxLen

Read(t) ==
  /\ ctor[t].pc = "done"
  /\ \E length \in ReadLengths, outcome \in ReadOutcomes :
       LET r == ReadResult(ctor[t], length, outcome)
       IN /\ ctor' = [ctor EXCEPT ![t].offset = r.offset]
          /\ reads' = [reads EXCEPT ![t] =
               [called |-> TRUE, length |-> length, data |-> r.data, err |-> r.err,
                before |-> ctor[t].offset, got |-> reads[t].got \o r.data,
                exact |-> reads[t].exact /\ length > 0 /\ outcome = "full",
                io |-> r.io, fault |-> r.io /\ outcome = "fault",
                afterFault |-> reads[t].fault \/ reads[t].afterFault]]
  /\ UNCHANGED <<DEVICE_CACHE, now, sessions, image, stats, listings>>

ReadComponents ==
  {PathComponent(<<<<"d">>, <<"f">>>>), InodeComponent(<<<<"d">>, <<"f">>>>, 3),
   StreamComponent(<<<<"d">>, <<"f", ":", "s">>>>, 3, "NTFS_DATA", 2),
   PathComponent(<<<<"d">>>>)}

\* one handler is opened, read and released at a time: the offset is the
\* handler's own and no other handler reads or writes it
StartRead(t) ==
  /\ InTurn(t)
  /\ \A u \in Threads : ctor[u].pc = "idle"
  /\ \E base \in FileBases, comp \in ReadComponents : Construct(t, base, comp, <<>>)
  /\ UNCHANGED <<DEVICE_CACHE, now, sessions, image, results>>

\* the caller drops its handler
Release(t) ==
  /\ ctor[t].pc \in {"done", "failed"}
  /\ ctor' = [ctor EXCEPT ![t] = IdleCtor]
  /\ reads' = [reads EXCEPT ![t] = NoRead]
  /\ stats' = [stats EXCEPT ![t] = NoStat]
  /\ listings' = [listings EXCEPT ![t] = NoListing]
  /\ UNCHANGED <<DEVICE_CACHE, now, sessions, image>>

NextRead ==
  \/ \E t \in Threads : StartRead(t)
  \/ \E t \in Threads : Get(t)
  \/ \E t \in Threads : Parse(t)
  \/ \E t \in Threads : Put(t)
  \/ \E t \in Threads : OpenEntry(t)
  \/ \E t \in Threads : Read(t)
  \/ \E t \in Threads : Release(t)

SpecRead == Init /\ [][NextRead]_vars

----------------------------------------------------------------------------
(* The device cache under concurrent opens. *)

DeviceKeys == {FdHash(d) : d \in Devices}

\* the sessions constructed for a device by opens that found no entry for it
FirstSessions(key) ==
  {i \in DOMAIN sessions : sessions[i].dev = key /\ sessions[i].cause = "absent"}

\* C1: opens of a device that all find the Device Cache without an entry for it
\* construct, between them, one Filesystem Parse Session and no more, whatever
\* the interleaving of their lookup, parse and store steps.
C1_OneSessionPerDevice == \A key \in DeviceKeys : Cardinality(FirstSessions(key)) <= 1

\* C2: an open that starts after an open of the same device has completed,
\* while that open's cache entry has not expired, parses nothing and holds the
\* very session the completed open holds.
C2_LaterOpenSharesSession ==
  \A t \in Threads :
    (ctor[t].looked /\ ctor[t].prior # {}) =>
      /\ ctor[t].pc # "parse"
      /\ ~ctor[t].parsed
      /\ \A s \in ctor[t].prior : ctor[t].filesystem = s

----------------------------------------------------------------------------
(* The address of a handler constructed on a base. *)

Resolved(t) == ctor[t].pc # "idle" /\ ctor[t].pathspec # <<>>

\* C9: on a directory base of this backend the handler borrows the raw device and
\* its address is as long as the base's, the last path being the join of the
\* base's last path and the component's; on a file-like base the address is one
\* longer; so at any nesting depth the address is the raw device's plus one.
C9_AddressLength ==
  \A t \in Threads :
    Resolved(t) =>
      LET h == ctor[t]
      IN /\ (h.base.kind = "tsk" /\ h.base.isDir) =>
              /\ h.tsk_raw_device = h.base.dev
              /\ Len(h.pathspec) = Len(h.base.pathspec)
              /\ Last(h.pathspec).path = JoinPath(Last(h.base.pathspec).path, h.comp.path)
         /\ (h.base.kind = "os" /\ ~h.base.isDir) =>
              /\ h.tsk_raw_device = h.base.dev
              /\ Len(h.pathspec) = Len(h.base.pathspec) + 1
         /\ Len(h.pathspec) = Len(RawPathspec(h.tsk_raw_device)) + 1

\* a handler two directories below the handler opened on the raw device
C9_Witness ==
  \E t \in Threads :
    /\ ctor[t].pc = "done"
    /\ ctor[t].base.kind = "tsk"
    /\ ctor[t].base.depth = 2
    /\ ctor[t].tsk_path = <<<<"d">>, <<"f">>>>

InvalidBase(base) == base.kind = "none" \/ (base.kind # "tsk" /\ base.isDir)

\* C10: a construction with no base, or with a directory of another backend as
\* base, fails with an I/O error, before any cache lookup or parse, and holds no
\* session.
C10_InvalidBaseFails ==
  \A t \in Threads :
    (ctor[t].pc # "idle" /\ InvalidBase(ctor[t].base)) =>
      /\ ctor[t].pc = "failed"
      /\ ctor[t].err = "IOError"
      /\ ~ctor[t].looked
      /\ ~ctor[t].parsed
      /\ ctor[t].filesystem = 0

\* both kinds of invalid base were tried, after the cache had been filled
C10_Witness ==
  /\ DOMAIN DEVICE_CACHE # {}
  /\ \E t, u \in Threads :
       /\ ctor[t].pc = "failed" /\ ctor[t].base.kind = "none"
       /\ ctor[u].pc = "failed" /\ ctor[u].base.kind = "os" /\ ctor[u].base.isDir

\* C3: on a regular file, Read calls with positive lengths that the parser serves
\* in full return consecutive slices of the content from 0 on, which make up the
\* whole content once size bytes are returned; a Read issued at the end returns
\* the empty result and no error.
C3_SequentialReads ==
  \A t \in Threads :
    (ctor[t].pc = "done" /\ IsFile(ctor[t]) /\ reads[t].exact) =>
      LET h == ctor[t]
          r == reads[t]
      IN /\ r.err = ""
         /\ h.offset = Len(r.got)
         /\ r.got = SubSeq(Content(h), 1, Len(r.got))
         /\ r.data = SubSeq(Content(h), r.before + 1, r.before + Len(r.data))
         /\ h.offset = r.before + Len(r.data)
         /\ (r.called /\ r.before < h.size) => Len(r.data) = Min(h.size - r.before, r.length)
         /\ Len(r.got) = h.size => r.got = Content(h)
         /\ (r.called /\ r.before >= h.size) => r.data = <<>>

\* the whole file was read in several calls, and one more Read returned nothing
C3_Witness ==
  \E t \in Threads :
    /\ ctor[t].pc = "done" /\ IsFile(ctor[t]) /\ reads[t].exact
    /\ ctor[t].size = MaxSize
    /\ reads[t].called /\ reads[t].before = MaxSize
    /\ reads[t].got = Content(ctor[t])
    /\ reads[t].data = <<>> /\ reads[t].err = ""

----------------------------------------------------------------------------
(* TSKFile.MakeStatResponse, TSKFile.Stat, TSKFile.ListFiles *)

\* child_pathspec.last.path += ":" + tsk_attribute.info.name
AppendStreamName(path, name) ==
  IF path = <<>> THEN <<<<":", name>>>>
  ELSE [path EXCEPT ![Len(path)] = @ \o <<":", name>>]

\* Lines 205-218: the address of the entry, of the named child, of the stream.
ChildPathspec(pathspec, meta, addr, a, append_name) ==
  LET joined == IF append_name # ""
                  THEN SetLast(pathspec, "path", JoinPath(Last(pathspec).path, <<<<append_name>>>>))
                  ELSE pathspec
      inoded == SetLast(SetLast(joined, "inode", addr), "hasInode", TRUE)
  IN IF a = 0 THEN inoded
     ELSE LET attr == meta.attrs[a]
              typed == SetLast(SetLast(SetLast(inoded, "ntfs_type", attr.type),
                                       "ntfs_id", attr.id), "hasNtfs", TRUE)
          IN IF attr.name # ""
               THEN SetLast(typed, "path", AppendStreamName(Last(typed).path, attr.name))
               ELSE typed

\* Lines 220-226: the type bits of the directory entry and of the metadata.
ModeBits(f, meta) ==
  BitOr(IF f.hasName THEN LookupGet(FILE_TYPE_LOOKUP, f.ntype) ELSE 0,
        LookupGet(META_TYPE_LOOKUP, meta.type))

\* Lines 189-230; a = 0 for no attribute, append_name = "" for none.
MakeStatResponse(pathspec, img, f, a, append_name) ==
  IF f.meta = 0 THEN [NoStat EXCEPT !.err = "AttributeError"]
  ELSE LET meta == img.meta[f.meta]
           mode == Unsigned32(meta.mode)
       IN [err |-> "",
           st_ino |-> f.meta,
           st_mode |-> [hi |-> mode.hi, lo |-> BitOr(mode.lo, ModeBits(f, meta))],
           st_nlink |-> Unsigned32(meta.nlink),
           st_uid |-> Unsigned32(meta.uid),
           st_gid |-> Unsigned32(meta.gid),
           st_size |-> Unsigned32(meta.size),
           st_atime |-> Unsigned32(meta.atime),
           st_mtime |-> Unsigned32(meta.mtime),
           st_ctime |-> Unsigned32(meta.ctime),
           pathspec |-> ChildPathspec(pathspec, meta, f.meta, a, append_name)]

\* Lines 252-254.
Stat(t) ==
  /\ ctor[t].pc = "done"
  /\ stats[t].err = "none"
  /\ stats' = [stats EXCEPT ![t] = MakeStatResponse(ctor[t].pathspec, image, ctor[t].fd, 0, "")]
  /\ UNCHANGED <<DEVICE_CACHE, now, sessions, image, ctor, reads, listings>>

DataStreamTypes == {"NTFS_DATA", "DEFAULT"}

\* Lines 270-275: the records of the named data streams, from attribute i on.
RECURSIVE StreamRecords(_, _, _, _, _)
StreamRecords(pathspec, img, f, name, i) ==
  LET attrs == img.meta[f.meta].attrs
  IN IF i > Len(attrs) THEN <<>>
     ELSE (IF attrs[i].type \in DataStreamTypes /\ attrs[i].name # ""
             THEN <<MakeStatResponse(pathspec, img, f, i, name)>>
             ELSE <<>>)
          \o StreamRecords(pathspec, img, f, name, i + 1)

\* EntryRecords without the test against BLACKLIST_FILES
EntryRecords_NoBlacklist(pathspec, img, e) ==
  IF e.name \in {".", ".."} THEN <<>>
  ELSE LET f == File(TRUE, e.name, e.type, e.addr)
           primary == MakeStatResponse(pathspec, img, f, 0, e.name)
       IN IF primary.err # "" THEN <<>>
          ELSE <<primary>> \o StreamRecords(pathspec, img, f, e.name, 1)

\* Lines 261-277: what one directory entry contributes to the listing.
EntryRecords(pathspec, img, e) ==
  IF e.name \in {".", ".."} \/ e.name \in BLACKLIST_FILES THEN <<>>
  ELSE LET f == File(TRUE, e.name, e.type, e.addr)
           primary == MakeStatResponse(pathspec, img, f, 0, e.name)
       IN IF primary.err # "" THEN <<>>
          ELSE <<primary>> \o StreamRecords(pathspec, img, f, e.name, 1)

\* the listing given up at the first entry whose metadata cannot be read
RECURSIVE RecordsFrom_Abort(_, _, _, _)
RecordsFrom_Abort(pathspec, img, entries, i) ==
  IF i > Len(entries) THEN <<>>
  ELSE IF entries[i].name \notin {".", ".."} \cup BLACKLIST_FILES /\ entries[i].addr = 0 THEN <<>>
  ELSE EntryRecords(pathspec, img, entries[i]) \o RecordsFrom_Abort(pathspec, img, entries, i + 1)

RECURSIVE RecordsFrom(_, _, _, _)
RecordsFrom(pathspec, img, entries, i) ==
  IF i > Len(entries) THEN <<>>
  ELSE EntryRecords(pathspec, img, entries[i]) \o RecordsFrom(pathspec, img, entries, i + 1)

\* fd.as_directory()
DirectoryOf(img, h) == IF h.fd.meta \in DOMAIN img.dir THEN img.dir[h.fd.meta] ELSE <<>>

\* Lines 256-279; enumerated counts the entries taken from fd.as_directory().
\* The message of the IOError reads fd.info.name.name, which a handle opened by
\* inode does not have.
ListFilesResult(h, img) ==
  IF IsDirectory(h)
    THEN [err |-> "", records |-> RecordsFrom(h.pathspec, img, DirectoryOf(img, h), 1),
          enumerated |-> Len(DirectoryOf(img, h))]
    ELSE [err |-> IF h.fd.hasName THEN "IOError" ELSE "AttributeError", records |-> <<>>,
          enumerated |-> 0]

ListFiles(t) ==
  /\ ctor[t].pc = "done"
  /\ ~listings[t].called
  /\ LET r == ListFilesResult(ctor[t], image)
     IN listings' = [listings EXCEPT ![t] =
          [called |-> TRUE, err |-> r.err, records |-> r.records, enumerated |-> r.enumerated]]
  /\ UNCHANGED <<DEVICE_CACHE, now, sessions, image, ctor, reads, stats>>

----------------------------------------------------------------------------
(* Stat records of one entry, opened by path, by inode and from a record.  *)

NameTypes == DOMAIN FILE_TYPE_LOOKUP \cup {"VIRT"}

MetaTypes == DOMAIN META_TYPE_LOOKUP \cup {"VIRT"}

AttributeLists ==
  {<<Attribute("NTFS_DATA", 1, "", 2), Attribute("NTFS_DATA", 2, "s", 1)>>,
   <<Attribute("DEFAULT", 0, "", 1)>>}

\* an image whose root holds one entry, "a", of inode 2
StatImage(ntype, mtype, attrs) ==
  [meta |-> (1 :> Meta("DIR", 493, 0, 0, <<>>)) @@ (2 :> Meta(mtype, 420, 2, 0 - 1, attrs)),
   dir |-> (1 :> <<Dirent("a", ntype, 2)>>)]

StatImages ==
  {StatImage(ntype, mtype, attrs) : ntype \in NameTypes, mtype \in MetaTypes, attrs \in AttributeLists}

InitStat ==
  /\ DEVICE_CACHE = <<>>
  /\ now = 0
  /\ sessions = <<>>
  /\ image \in StatImages
  /\ ctor = [t \in Threads |-> IdleCtor]
  /\ NoResults

StatComponents ==
  {PathComponent(<<<<"a">>>>), InodeComponent(<<<<"a">>>>, 2),
   StreamComponent(<<<<"a", ":", "s">>>>, 2, "NTFS_DATA", 2)}

\* the whole-disk devices: the entry does not depend on the device it is read from
DiskBases == {FileBase(d) : d \in {dev \in Devices : ~dev.hasOffset}}

StartStat(t) ==
  /\ ctor[t].pc = "idle"
  /\ InTurn(t)
  /\ \A u \in Threads : ~Busy(u)
  /\ \E base \in DiskBases, comp \in StatComponents : Construct(t, base, comp, <<>>)
  /\ UNCHANGED <<DEVICE_CACHE, now, sessions, image, results>>

\* the StatResponses a thread has got from Stat and ListFiles
RecordsOf(u) ==
  (IF stats[u].err = "" THEN {stats[u]} ELSE {})
  \cup {listings[u].records[i] : i \in 1..Len(listings[u].records)}

\* Lines 314-316: the address a StatResponse carries is opened again; its last
\* component has an inode, so the handler is constructed from it directly.
Reopen(t) ==
  /\ ctor[t].pc = "idle"
  /\ InTurn(t)
  /\ \A u \in Threads : ~Busy(u)
  /\ \E u \in Threads :
       \E record \in RecordsOf(u) :
         /\ Last(record.pathspec).inode # 0
         /\ Construct(t, FileBase(ctor[u].tsk_raw_device), Last(record.pathspec), <<record>>)
  /\ UNCHANGED <<DEVICE_CACHE, now, sessions, image, results>>

NextStat ==
  \/ \E t \in Threads : StartStat(t)
  \/ \E t \in Threads : Reopen(t)
  \/ \E t \in Threads : Get(t)
  \/ \E t \in Threads : Parse(t)
  \/ \E t \in Threads : Put(t)
  \/ \E t \in Threads : OpenEntry(t)
  \/ \E t \in Threads : Stat(t)

SpecStat == InitStat /\ [][NextStat]_vars

Statted(t) == ctor[t].pc = "done" /\ stats[t].err = ""

\* C4: the Stat Record of a handler opened by an entry's inode and that of a
\* handler opened by the entry's path have the same inode, mode and size,
\* whatever the entry's directory-entry type and metadata type.
C4_InodeAndPathStatAgree ==
  \A t, u \in Threads :
    (/\ Statted(t) /\ Statted(u)
     /\ ctor[t].comp.hasInode /\ ~ctor[u].comp.hasInode
     /\ ctor[t].fd.meta = ctor[u].fd.meta) =>
      /\ stats[t].st_ino = stats[u].st_ino
      /\ stats[t].st_mode = stats[u].st_mode
      /\ stats[t].st_size = stats[u].st_size

\* C5: a handler opened by inode, with no attribute type or id in its component,
\* has the entry's metadata size as its size.
C5_InodeOpenTakesMetadataSize ==
  \A t \in Threads :
    (ctor[t].pc = "done" /\ ctor[t].comp.hasInode /\ ~ctor[t].comp.hasNtfs) =>
      ctor[t].size = image.meta[ctor[t].fd.meta].size

\* a path without the ":<stream name>" suffix of its last segment
StripStreamName(path) ==
  IF path = <<>> THEN path ELSE [path EXCEPT ![Len(path)] = <<@[1]>>]

WithoutStreamName(record) ==
  [record EXCEPT !.pathspec = SetLast(@, "path", StripStreamName(Last(@).path))]

\* C8: the handler opened from the address a Stat Record carries has a Stat
\* Record equal to it in every field, the stream-name suffix apart.
C8_StatRoundTrip ==
  \A t \in Threads :
    (Statted(t) /\ ctor[t].origin # <<>>) =>
      WithoutStreamName(stats[t]) = WithoutStreamName(ctor[t].origin[1])

----------------------------------------------------------------------------
(* Directory listings. *)

\* inodes of the listed images: the root, a file with one named stream, a file
\* with two, a directory with a named index attribute, the orphan directory
ListMeta ==
  (1 :> Meta("DIR", 493, 0, 0, <<>>))
  @@ (2 :> Meta("REG", 420, 2, 0, <<Attribute("NTFS_DATA", 1, "", 2),
                                     Attribute("NTFS_DATA", 2, "s", 1)>>))
  @@ (3 :> Meta("REG", 420, 3, 0, <<Attribute("NTFS_SI", 0, "", 1),
                                     Attribute("NTFS_DATA", 1, "", 3),
                                     Attribute("NTFS_DATA", 2, "s", 1),
                                     Attribute("NTFS_DATA", 3, "t", 0)>>))
  @@ (4 :> Meta("DIR", 493, 0, 0, <<Attribute("NTFS_IDXROOT", 1, "$I30", 1)>>))
  @@ (5 :> Meta("VIRT", 0, 0, 0, <<>>))

\* the entries a directory may hold; "c" has no metadata block
DirentChoices ==
  {Dirent(".", "DIR", 1), Dirent("..", "DIR", 1), Dirent("$OrphanFiles", "VIRT", 5),
   Dirent("a", "REG", 2), Dirent("b", "REG", 3), Dirent("c", "REG", 0), Dirent("e", "DIR", 4)}

RECURSIVE SeqsUpTo(_, _)
SeqsUpTo(S, n) ==
  IF n = 0 THEN {<<>>}
  ELSE LET shorter == SeqsUpTo(S, n - 1)
       IN shorter \cup {Append(q, x) : q \in shorter, x \in S}

ListImages == {[meta |-> ListMeta, dir |-> (1 :> entries)] : entries \in SeqsUpTo(DirentChoices, MaxEntries)}

InitList ==
  /\ DEVICE_CACHE = <<>>
  /\ now = 0
  /\ sessions = <<>>
  /\ image \in ListImages
  /\ ctor = [t \in Threads |-> IdleCtor]
  /\ NoResults

ListComponents == {PathComponent(<<>>), InodeComponent(<<>>, 1), PathComponent(<<<<"a">>>>)}

\* one handler is opened, listed and released at a time
StartList(t) ==
  /\ InTurn(t)
  /\ \A u \in Threads : ctor[u].pc = "idle"
  /\ \E base \in DiskBases, comp \in ListComponents : Construct(t, base, comp, <<>>)
  /\ UNCHANGED <<DEVICE_CACHE, now, sessions, image, results>>

NextList ==
  \/ \E t \in Threads : StartList(t)
  \/ \E t \in Threads : Get(t)
  \/ \E t \in Threads : Parse(t)
  \/ \E t \in Threads : Put(t)
  \/ \E t \in Threads : OpenEntry(t)
  \/ \E t \in Threads : ListFiles(t)
  \/ \E t \in Threads : Release(t)

SpecList == InitList /\ [][NextList]_vars

Excluded == {".", "..", "$OrphanFiles"}

Listed(t) == ctor[t].pc = "done" /\ listings[t].called /\ listings[t].err = ""

\* the named data streams of an entry, as indices of its attribute list
NamedStreams(e) ==
  IF e.addr = 0 THEN {}
  ELSE LET attrs == image.meta[e.addr].attrs
       IN {i \in 1..Len(attrs) : attrs[i].type \in DataStreamTypes /\ attrs[i].name # ""}

\* the m-th of them
NthStream(e, m) ==
  CHOOSE i \in NamedStreams(e) : Cardinality({j \in NamedStreams(e) : j <= i}) = m

\* where the primary record of entry k stands when the entries in kept are listed
Position(entries, kept, k) ==
  1 + Cardinality({j \in kept : j < k})
    + Cardinality(UNION {{<<j, i>> : i \in NamedStreams(entries[j])} : j \in {j \in kept : j < k}})

LastSegment(record) == Last(Last(record.pathspec).path)

\* the listing is, for each entry in kept and in directory order, a primary
\* record and then one record per named data stream, with distinct suffixes
ListingOf(t, kept) ==
  LET entries == DirectoryOf(image, ctor[t])
      records == listings[t].records
      streams == UNION {{<<j, i>> : i \in NamedStreams(entries[j])} : j \in kept}
  IN /\ Len(records) = Cardinality(kept) + Cardinality(streams)
     /\ \A i \in 1..Len(records) : LastSegment(records[i])[1] \notin Excluded
     /\ \A k \in kept :
          LET e == entries[k]
              p == Position(entries, kept, k)
              n == Cardinality(NamedStreams(e))
          IN /\ p + n <= Len(records)
             /\ records[p].st_ino = e.addr
             /\ ~Last(records[p].pathspec).hasNtfs
             /\ Last(records[p].pathspec).path = Append(ctor[t].tsk_path, <<e.name>>)
             /\ \A m \in 1..n :
                  LET a == image.meta[e.addr].attrs[NthStream(e, m)]
                      r == records[p + m]
                  IN /\ r.st_ino = e.addr
                     /\ Last(r.pathspec).hasNtfs
                     /\ Last(r.pathspec).ntfs_id = a.id
                     /\ Last(r.pathspec).path = Append(ctor[t].tsk_path, <<e.name, ":", a.name>>)
             /\ \A m1, m2 \in 1..n :
                  m1 # m2 => LastSegment(records[p + m1]) # LastSegment(records[p + m2])

\* C6 as stated: every entry not named ".", ".." or "$OrphanFiles" gets a
\* primary record followed at once by one record per named data stream, each
\* with its own ":<stream name>" suffix; the three names get none.
C6_EveryEntryListed ==
  \A t \in Threads :
    Listed(t) =>
      LET entries == DirectoryOf(image, ctor[t])
      IN ListingOf(t, {k \in 1..Len(entries) : entries[k].name \notin Excluded})

\* C6, amended: the same of every such entry that has a metadata block; an
\* entry without one gets no record.
C6_EntriesWithMetadataListed ==
  \A t \in Threads :
    Listed(t) =>
      LET entries == DirectoryOf(image, ctor[t])
      IN ListingOf(t, {k \in 1..Len(entries) : entries[k].name \notin Excluded /\ entries[k].addr # 0})

\* a listing of a directory with an excluded name, an entry without metadata and
\* the entry with two named streams
C6_Witness ==
  \E t \in Threads :
    /\ Listed(t)
    /\ LET entries == DirectoryOf(image, ctor[t])
       IN /\ \E k \in 1..Len(entries) : entries[k].name \in Excluded
          /\ \E k \in 1..Len(entries) : entries[k].addr = 0
          /\ \E k \in 1..Len(entries) : Cardinality(NamedStreams(entries[k])) = 2
    /\ Len(listings[t].records) = 3

\* the attribute a stream record names
StreamOf(record) ==
  LET attrs == image.meta[record.st_ino].attrs
  IN attrs[CHOOSE i \in 1..Len(attrs) :
             /\ attrs[i].type = Last(record.pathspec).ntfs_type
             /\ attrs[i].id = Last(record.pathspec).ntfs_id]

\* C7: the record of a named stream has the entry's path with ":<stream name>"
\* appended and the stream's own size as its size.
C7_StreamRecordSize ==
  \A t \in Threads :
    Listed(t) =>
      \A i \in 1..Len(listings[t].records) :
        LET r == listings[t].records[i]
        IN Last(r.pathspec).hasNtfs =>
             /\ LastSegment(r)[2] = ":" /\ LastSegment(r)[3] = StreamOf(r).name
             /\ r.st_size = Unsigned32(StreamOf(r).size)

----------------------------------------------------------------------------
(* TSKFile.Open: the entry point that resolves one component of an address. *)

\* the mounted filesystems of the client: mount point and raw device
Mounts ==
  {[point |-> <<>>, dev |-> RawDevice(<<"a">>, FALSE, 0)],
   [point |-> <<<<"m">>>>, dev |-> RawDevice(<<"a">>, TRUE, 1)]}

IsPrefix(p, q) == Len(p) <= Len(q) /\ SubSeq(q, 1, Len(p)) = p

\* client_utils.GetRawDevice(path): the device of the deepest mount point above
\* the path, and the path below that mount point
GetRawDevice(path) ==
  LET above == {m \in Mounts : IsPrefix(m.point, path)}
      mount == CHOOSE m \in above : \A n \in above : Len(n.point) <= Len(m.point)
  IN [raw_pathspec |-> RawPathspec(mount.dev)[1],
      corrected_path |-> SubSeq(path, Len(mount.point) + 1, Len(path))]

\* client_utils.LocalPathToCanonicalPath(path)
LocalPathToCanonicalPath(path) == NormalizePath(path)

\* component.inode as Python reads it: 0 when the field is unset
InodeOf(component) == IF component.hasInode THEN component.inode ELSE 0

\* OpenBranch with the rewrite taken for every component of this backend
OpenBranch_RewriteAnyBase(base, component) ==
  IF component.pathtype = "TSK" THEN "rewrite"
  ELSE IF InodeOf(component) # 0 THEN "inode"
  ELSE "name"

\* Lines 298, 315, 319: which of the three branches Open takes.
OpenBranch(base, component) ==
  IF base.kind = "none" /\ component.pathtype = "TSK" THEN "rewrite"
  ELSE IF InodeOf(component) # 0 THEN "inode"
  ELSE "name"

\* Lines 303-311: the address after the rewrite; pathspec holds the components
\* after the one being opened.
RewriteAddress(component, pathspec) ==
  LET raw == GetRawDevice(component.path)
      inserted == <<raw.raw_pathspec, [component EXCEPT !.path = raw.corrected_path]>> \o pathspec
  IN [i \in 1..Len(inserted) |->
        IF inserted[i].path # <<>>
          THEN [inserted[i] EXCEPT !.path = LocalPathToCanonicalPath(@)]
          ELSE inserted[i]]

\* the components an Open is given: by path, by inode (0 included), by path
\* with a tag of another backend
CallComponents ==
  {PathComponent(<<<<"d">>>>), PathComponent(<<<<"m">>, <<".">>, <<"d">>>>),
   InodeComponent(<<<<"d">>>>, 2), InodeComponent(<<<<"d">>>>, 0),
   Component("OS", <<<<"d">>>>, FALSE, 0, FALSE, DefaultNtfsType, DefaultNtfsId)}

\* the components that follow it in the address
CallRests == {<<>>, <<PathComponent(<<<<".">>, <<"f">>>>)>>}

\* Lines 287-320: one call of Open. The rewrite and the delegation construct no
\* handler; the inode branch runs the constructor.
Open(t) ==
  /\ ctor[t].pc = "idle"
  /\ InTurn(t)
  /\ \A u \in Threads : ~Busy(u)
  /\ \E base \in {NoBase} \cup DiskBases \cup DirectoryBases, component \in CallComponents,
        pathspec \in CallRests :
       LET branch == OpenBranch(base, component)
       IN IF branch = "rewrite"
            THEN ctor' = [ctor EXCEPT ![t] =
                   [IdleCtor EXCEPT !.pc = "rewritten", !.base = base, !.comp = component,
                      !.rest = pathspec, !.address = RewriteAddress(component, pathspec)]]
          ELSE IF branch = "inode"
            THEN Construct(t, base, component, <<>>)
          ELSE ctor' = [ctor EXCEPT ![t] =
                   [IdleCtor EXCEPT !.pc = "delegated", !.base = base, !.comp = component,
                      !.rest = pathspec, !.address = pathspec]]
  /\ UNCHANGED <<DEVICE_CACHE, now, sessions, image, results>>

NextOpen ==
  \/ \E t \in Threads : Open(t)
  \/ \E t \in Threads : Get(t)
  \/ \E t \in Threads : Parse(t)
  \/ \E t \in Threads : Put(t)
  \/ \E t \in Threads : OpenEntry(t)

SpecOpen == Init /\ [][NextOpen]_vars

Called(t) == ctor[t].pc # "idle"

\* the handler-side state of a call that constructed nothing
NothingConstructed(h) ==
  /\ h.filesystem = 0 /\ ~h.looked /\ ~h.parsed
  /\ h.fd = NoFile /\ h.pathspec = <<>> /\ h.tsk_raw_device = NoDevice

\* C11: Open with no base and a component of this backend rewrites the address -
\* the raw device's component in front, the component's path cut down to what
\* lies below the mount point, every path canonical - and returns no handle:
\* no handler, no session, no cache access; no other call takes this branch.
C11_RewriteWithoutBase ==
  \A t \in Threads :
    /\ (Called(t) /\ ctor[t].base.kind = "none" /\ ctor[t].comp.pathtype = "TSK") =>
         LET h == ctor[t]
         IN /\ h.pc = "rewritten"
            /\ NothingConstructed(h)
            /\ Len(h.address) = Len(h.rest) + 2
            /\ \E m \in Mounts :
                 /\ h.address[1] = RawPathspec(m.dev)[1]
                 /\ IsPrefix(m.point, h.comp.path)
                 /\ \A n \in Mounts : IsPrefix(n.point, h.comp.path) => Len(n.point) <= Len(m.point)
                 /\ h.address[2] =
                      [h.comp EXCEPT !.path = NormalizePath(SubSeq(h.comp.path, Len(m.point) + 1,
                                                              Len(h.comp.path)))]
            /\ \A i \in 1..Len(h.rest) :
                 h.address[i + 2] = [h.rest[i] EXCEPT !.path = NormalizePath(@)]
    /\ ctor[t].pc = "rewritten" => ctor[t].base.kind = "none"

\* a path below the mount point /m was rewritten after the cache had been
\* filled by an earlier open, and the cache entry is still that open's
C11_Witness ==
  \E t, u \in Threads :
    /\ ctor[u].pc = "done"
    /\ DOMAIN DEVICE_CACHE # {}
    /\ Len(sessions) = 1
    /\ ctor[t].pc = "rewritten"
    /\ ctor[t].rest # <<>>
    /\ ctor[t].address[2].path = <<<<"d">>>>
    /\ ctor[t].address[1].path = <<<<"a">>>>
    /\ ctor[t].comp.path = <<<<"m">>, <<".">>, <<"d">>>>

\* C12: with a base present, a component that carries an inode number - whatever
\* its value - is constructed directly and never handed to the name-based open;
\* a component without one is handed to it.
C12_InodeOpensDirectly ==
  \A t \in Threads :
    (Called(t) /\ ctor[t].base.kind # "none") =>
      (ctor[t].pc = "delegated" <=> ~ctor[t].comp.hasInode)

----------------------------------------------------------------------------
(* Faults and bounds of Read. *)

\* C14: when the parser's read raises a runtime fault, Read raises an I/O error
\* and not the fault, returns nothing and leaves the offset where it was; the
\* Reads that follow continue from that position: the offset is always the
\* number of bytes returned so far, and a Read returns the bytes from it on.
C14_FaultKeepsOffset ==
  \A t \in Threads :
    (ctor[t].pc = "done" /\ IsFile(ctor[t]) /\ reads[t].called) =>
      LET h == ctor[t]
          r == reads[t]
      IN /\ r.fault => (r.err = "IOError" /\ r.data = <<>> /\ h.offset = r.before)
         /\ r.err \in {"", "IOError"}
         /\ h.offset = Len(r.got)
         /\ r.afterFault =>
              (r.err = "" => r.data = SubSeq(Content(h), r.before + 1, r.before + Len(r.data)))

\* a Read faulted in the middle of the file and the next Read returned the
\* bytes that follow the ones read before the fault
C14_Witness ==
  \E t \in Threads :
    /\ ctor[t].pc = "done" /\ IsFile(ctor[t])
    /\ reads[t].called /\ reads[t].afterFault /\ ~reads[t].fault
    /\ reads[t].before > 0
    /\ reads[t].data # <<>>
    /\ reads[t].got = SubSeq(Content(ctor[t]), 1, ctor[t].offset)

\* C17: whatever lengths are asked for (zero and negative ones too), the offset
\* of a regular-file handler stays within 0..size and never decreases, and a
\* Read returns at most max(length, 0) bytes.
C17_OffsetWithinSize ==
  \A t \in Threads :
    (ctor[t].pc = "done" /\ IsFile(ctor[t])) =>
      /\ 0 <= ctor[t].offset /\ ctor[t].offset <= ctor[t].size
      /\ reads[t].called =>
           /\ reads[t].before <= ctor[t].offset
           /\ Len(reads[t].data) <= Max(reads[t].length, 0)

\* a Read of negative length at a position inside the file
C17_Witness ==
  \E t \in Threads :
    /\ ctor[t].pc = "done" /\ IsFile(ctor[t])
    /\ reads[t].called /\ reads[t].length < 0
    /\ reads[t].before > 0 /\ reads[t].before < ctor[t].size
    /\ ctor[t].offset = reads[t].before

----------------------------------------------------------------------------
(* Operations on an entry of the wrong kind. *)

NextKinds ==
  \/ \E t \in Threads : StartRead(t)
  \/ \E t \in Threads : Get(t)
  \/ \E t \in Threads : Parse(t)
  \/ \E t \in Threads : Put(t)
  \/ \E t \in Threads : OpenEntry(t)
  \/ \E t \in Threads : Read(t)
  \/ \E t \in Threads : ListFiles(t)
  \/ \E t \in Threads : Release(t)

SpecKinds == Init /\ [][NextKinds]_vars

\* C13: Read on a handler whose entry is not a regular file fails without a
\* call of the parser's read and leaves the offset; ListFiles on a handler whose
\* entry is not a directory fails, enumerates no entry and emits no record.
C13_WrongKindFails ==
  \A t \in Threads :
    ctor[t].pc = "done" =>
      /\ (reads[t].called /\ ~IsFile(ctor[t])) =>
           /\ reads[t].err # ""
           /\ ~reads[t].io
           /\ reads[t].data = <<>>
           /\ ctor[t].offset = reads[t].before
      /\ (listings[t].called /\ ~IsDirectory(ctor[t])) =>
           /\ listings[t].err # ""
           /\ listings[t].enumerated = 0
           /\ listings[t].records = <<>>

\* ListFiles failed on a regular file that Read had read from
C13_Witness ==
  \E t \in Threads :
    /\ ctor[t].pc = "done" /\ IsFile(ctor[t])
    /\ listings[t].called /\ listings[t].err = "IOError"
    /\ reads[t].called /\ reads[t].err = "" /\ ctor[t].offset > 0

----------------------------------------------------------------------------
(* Expiry of Device Cache entries: opens one after the other, as time passes. *)

StartSerial(t) ==
  /\ ctor[t].pc = "idle"
  /\ InTurn(t)
  /\ \A u \in Threads : ~Busy(u)
  /\ \E base \in FileBases, comp \in CacheComponents : Construct(t, base, comp, <<>>)
  /\ UNCHANGED <<DEVICE_CACHE, now, sessions, image, results>>

NextExpiry ==
  \/ \E t \in Threads : StartSerial(t)
  \/ \E t \in Threads : Get(t)
  \/ \E t \in Threads : Parse(t)
  \/ \E t \in Threads : Put(t)
  \/ \E t \in Threads : OpenEntry(t)
  \/ Tick

SpecExpiry == Init /\ [][NextExpiry]_vars

\* the entry of the key is in the cache and older than the time-to-live
Expired(key) == key \in DOMAIN DEVICE_CACHE /\ DEVICE_CACHE[key].stamp + MaxAge < now

\* C15: an entry expires a fixed time after its insertion, however often it was
\* looked up: a lookup leaves the cache as it is and finds the entry exactly
\* while insertion time + time-to-live has not passed; after that the lookup
\* reports not-found, the open constructs a new session and stores it under
\* the device identity with the time of the store.
C15_ExpiryFromInsertion ==
  [][\A t \in Threads :
       LET key == FdHash(ctor[t].tsk_raw_device)
       IN /\ (ctor[t].pc = "get" /\ ctor'[t].pc # "get") =>
               /\ DEVICE_CACHE' = DEVICE_CACHE
               /\ Expired(key) => (ctor'[t].pc = "parse" /\ ctor'[t].filesystem = 0)
               /\ (key \in DOMAIN DEVICE_CACHE /\ ~Expired(key)) =>
                    (ctor'[t].pc = "open" /\ ctor'[t].filesystem = DEVICE_CACHE[key].obj)
          /\ (ctor[t].pc = "parse" /\ ctor'[t].pc = "put") =>
               /\ Len(sessions') = Len(sessions) + 1
               /\ ctor'[t].filesystem = Len(sessions')
          /\ (ctor[t].pc = "put" /\ ctor'[t].pc # "put") =>
               /\ ctor'[t].pc = "open"
               /\ key \in DOMAIN DEVICE_CACHE'
               /\ DEVICE_CACHE'[key] = [stamp |-> now, obj |-> ctor[t].filesystem]]_vars

\* the first session of a device was found by a second open, then expired, and a
\* third open parsed the device again and stored the new session
C15_Witness ==
  \E t, u, v \in Threads :
    /\ ctor[t].pc = "done" /\ ctor[t].parsed /\ ctor[t].miss = "absent"
    /\ ctor[u].pc = "done" /\ ~ctor[u].parsed /\ ctor[u].filesystem = ctor[t].filesystem
    /\ ctor[v].pc = "done" /\ ctor[v].parsed /\ ctor[v].miss = "expired"
    /\ ctor[v].tsk_raw_device = ctor[t].tsk_raw_device
    /\ ctor[v].filesystem # ctor[t].filesystem
    /\ sessions[ctor[t].filesystem].stamp + MaxAge < now
    /\ DEVICE_CACHE[FdHash(ctor[v].tsk_raw_device)] = [stamp |-> now, obj |-> ctor[v].filesystem]

----------------------------------------------------------------------------
(* The device identity of raw devices that differ in path or in offset. *)

\* raw devices with and without an offset, among them a path that ends in ":1"
KeyDevices ==
  {RawDevice(<<"a">>, FALSE, 0), RawDevice(<<"a">>, TRUE, 0), RawDevice(<<"a">>, TRUE, 1),
   RawDevice(<<"a", ":", "1">>, FALSE, 0), RawDevice(<<"b">>, TRUE, 1)}

StartKeys(t) ==
  /\ ctor[t].pc = "idle"
  /\ InTurn(t)
  /\ \A u \in Threads : ~Busy(u)
  /\ \E dev \in KeyDevices, comp \in CacheComponents : Construct(t, FileBase(dev), comp, <<>>)
  /\ UNCHANGED <<DEVICE_CACHE, now, sessions, image, results>>

NextKeys ==
  \/ \E t \in Threads : StartKeys(t)
  \/ \E t \in Threads : Get(t)
  \/ \E t \in Threads : Parse(t)
  \/ \E t \in Threads : Put(t)
  \/ \E t \in Threads : OpenEntry(t)

SpecKeys == Init /\ [][NextKeys]_vars

\* C18: raw devices that differ in path or in offset have different keys, and a
\* handler holds a session that was parsed from its own raw device.
C18_KeyInjective ==
  \A t \in Threads :
    ctor[t].filesystem # 0 =>
      /\ sessions[ctor[t].filesystem].raw = ctor[t].tsk_raw_device
      /\ \A u \in Threads :
           (ctor[u].filesystem # 0
              /\ FdHash(ctor[u].tsk_raw_device) = FdHash(ctor[t].tsk_raw_device)) =>
             ctor[u].tsk_raw_device = ctor[t].tsk_raw_device

----------------------------------------------------------------------------
(* What failed opens leave in the Device Cache. *)

\* the open failed in pytsk3.FS_Info, after its lookup had missed
FailedInParse(h) == h.pc = "failed" /\ h.looked /\ h.miss # "" /\ ~h.parsed

\* the open failed in fs.open / fs.open_meta
FailedInEntry(h) == h.pc = "failed" /\ h.looked /\ (h.miss = "" \/ h.parsed)

\* the sessions that were stored in the cache
Stored == {i \in DOMAIN sessions : sessions[i].stamp >= 0}

\* C19: the cache holds only sessions that were constructed in full: an open
\* whose parse fails holds and stores nothing, and an open whose parse succeeds
\* and whose entry lookup fails leaves its session in the cache, where the next
\* open of the device finds it and parses nothing.
C19_CacheHoldsParsedSessions ==
  /\ DOMAIN DEVICE_CACHE = {sessions[i].dev : i \in Stored}
  /\ \A key \in DOMAIN DEVICE_CACHE :
       /\ DEVICE_CACHE[key].obj \in Stored
       /\ sessions[DEVICE_CACHE[key].obj].dev = key
  /\ \A key \in DeviceKeys : Cardinality({i \in DOMAIN sessions : sessions[i].dev = key}) <= 1
  /\ \A t \in Threads :
       LET h == ctor[t]
           key == FdHash(h.tsk_raw_device)
       IN /\ FailedInParse(h) => h.filesystem = 0
          /\ (FailedInParse(h) /\ key \in DOMAIN DEVICE_CACHE) =>
               \E u \in Threads : u # t /\ ctor[u].parsed /\ ctor[u].filesystem = DEVICE_CACHE[key].obj
          /\ FailedInEntry(h) =>
               /\ key \in DOMAIN DEVICE_CACHE
               /\ DEVICE_CACHE[key].obj = h.filesystem
          /\ (h.pc \in {"open", "done"} /\ ~h.parsed) =>
               /\ key \in DOMAIN DEVICE_CACHE
               /\ DEVICE_CACHE[key].obj = h.filesystem

\* one open failed in the parse, the next parsed the device and did not find
\* its entry, and a third found the session in the cache
C19_Witness ==
  \E t, u, v \in Threads :
    /\ FailedInParse(ctor[t])
    /\ FailedInEntry(ctor[u]) /\ ctor[u].parsed
    /\ ctor[v].pc = "done" /\ ~ctor[v].parsed /\ ctor[v].filesystem = ctor[u].filesystem
    /\ ctor[t].tsk_raw_device = ctor[u].tsk_raw_device
    /\ ctor[v].tsk_raw_device = ctor[u].tsk_raw_device
    /\ Len(sessions) = 1

----------------------------------------------------------------------------
(* Entries without metadata in a listing. *)

IsPrimary(record) == ~Last(record.pathspec).hasNtfs

\* an entry that is listed and whose metadata block is there
WellFormed(e) == e.name \notin Excluded /\ e.addr # 0

====
